---- MODULE Spec2Model ----
(***************************************************************************)
(* Process lifecycle of the Vein server control plane.                     *)
(*                                                                         *)
(* src/app/server-api.py  restart_server, update_server, get_server_process*)
(* src/app/entrypoint.py  main, install_or_update_server, start_server     *)
(*                                                                         *)
(* The HTTP handlers run in the threads of Flask's development server, so  *)
(* the steps of different requests interleave.  A handler is cut at its    *)
(* blocking calls (psutil wait, subprocess.Popen); what lies between two   *)
(* blocking calls is one action.  Time is abstract: a wait with a timeout  *)
(* returns when the process is gone and may expire while it is alive; the  *)
(* time.sleep(2) before a launch is part of the step that launches.        *)
(***************************************************************************)
EXTENDS Integers, Naturals, Sequences, FiniteSets, TLC

\* number of restart/update requests issued in one behaviour
MaxReq == 2

Reqs == 1..MaxReq

\* Process ids.  Pid 1 is the server started with the container; request r
\* spawns pid 2r+1; a wrapper script with pid p runs the binary as its
\* child, pid p+1, from the moment it is started.
InitialPid == 1
SpawnPid(r) == 2 * r + 1
RootPids == {InitialPid} \cup {SpawnPid(r) : r \in Reqs}
ChildPid(p) == p + 1
Pids == RootPids \cup {ChildPid(p) : p \in RootPids}
NoPid == 0

VARIABLES
    st,          \* process table: pid -> what runs under that pid
    isfileSh,    \* os.path.isfile(<SERVER_PATH>/VeinServer.sh)
    isfileBin,   \* os.path.isfile(<SERVER_PATH>/VeinServer)
    kind,        \* request -> "none" (not arrived) | "restart" | "update"
    pc,          \* request -> position in its handler
    proc,        \* request -> pid returned by get_server_process, or NoPid
    sent,        \* request -> signal calls made so far, in order
    resp,        \* request -> response returned by the handler
    grace,       \* request -> outcome of proc.wait after terminate()
    force,       \* request -> outcome of proc.wait after kill()
    provExit,    \* request -> exit of steamcmd in the entrypoint it spawned
    started,     \* requests whose entrypoint has called start_server
    apiKey,      \* API_KEY = os.getenv('SERVER_API_KEY', '')
    webhook,     \* DISCORD_ADMIN_WEBHOOK_URL is set
    cred,        \* request -> the key it presented, None when it had none
    notified,    \* request -> what became of its Discord notification
    statusOut,   \* answer of the last GET /api/server/status
    table,       \* a host process table, entry i being pid i
    located,     \* what get_server_process gave on that table
    env,         \* GAME_PORT, GAME_SERVER_QUERY_PORT, SERVER_MULTIHOME_IP
    extraArgs,   \* sys.argv[1:] of the entrypoint
    argv,        \* the argument lists built from env and extraArgs
    backups,     \* BACKUP_DIR: name of a Server_<timestamp>.vns -> its mtime
    saveFile,    \* mtime of Server.vns, or NoSave
    clock,       \* datetime.now() to the second
    retention,   \* MAX_BACKUPS
    lastRun,     \* what the last run of backup.py did
    ini,         \* Game.ini / Engine.ini: its sections, or Missing
    lastPut      \* body and answer of the last PUT /api/config/...

\* the inputs and the output of the locator on a given process table
locVars == <<table, located>>

\* the inputs and the outputs of the two builders of the server arguments
argVars == <<env, extraArgs, argv>>

\* the environment of the control plane, read once at import
cfgVars == <<apiKey, webhook>>

\* the files of the backup job and the configuration file of the server
bakVars == <<backups, saveFile, clock, retention, lastRun>>
iniVars == <<ini, lastPut>>
jobVars == <<bakVars, iniVars>>

vars == <<st, isfileSh, isfileBin, kind, pc, proc, sent, resp, notified, grace, force,
          provExit, started, cred, notified, statusOut, cfgVars, locVars,
          argVars, jobVars>>

ProcStates == {"unborn", "entry", "prov", "wrapper", "binary", "dead"}
Responses == {"none", "success", "NotFound", "Disappeared", "Failed",
              "NotTerminated", "MissingExecutable", "Unauthorized"}

\* ---------------------------------------------------------------------
\* Process table as psutil shows it
\* ---------------------------------------------------------------------

\* a pid is in the process table
Alive(p) == st[p] \in {"entry", "prov", "wrapper", "binary"}

\* What a process-table entry can be: the server's processes, the
\* entrypoint ("entry", "prov"), the control plane itself ("self", and
\* "selfVein" when it is installed under a path that contains VeinServer),
\* the http-forwarder of the control plane, an unrelated process, an
\* unrelated process whose name and command line psutil may not read
\* ("denied"), one whose command line is empty ("nocmd"), and one that
\* vanishes while process_iter reads it ("vanished").
HostKinds == {"wrapper", "binary", "self", "selfVein", "forwarder", "other",
              "denied", "nocmd", "vanished"}
ControlPlaneKinds == {"self", "selfVein", "forwarder", "entry", "prov"}

\* the value psutil puts in proc.info when AccessDenied is raised
None == "<None>"

\* proc.info['name'] and proc.info['cmdline'] of what runs under a pid:
\* the server as start_server / restart_server run it, and the entrypoint
\* as update_server runs it
ProcName(s) ==
    CASE s = "wrapper" -> "VeinServer.sh"
      [] s = "binary"  -> "VeinServer"
      [] s = "other"   -> "bash"
      [] s = "nocmd"   -> "kthreadd"
      [] s = "denied"  -> None
      [] OTHER         -> "python3"

\* an unreadable command line is None, an empty one []: both are false in
\* "proc.info['cmdline'] and any(...)", and both are <<>> here
ProcCmdline(s) ==
    CASE s = "wrapper"   -> <<"./VeinServer.sh", "-log">>
      [] s = "binary"    -> <<"./VeinServer", "-log">>
      [] s = "self"      -> <<"python3", "/server-api.py">>
      [] s = "selfVein"  -> <<"python3", "/opt/VeinServer/server-api.py">>
      [] s = "forwarder" -> <<"python3", "/http-forwarder.py">>
      [] s = "other"     -> <<"bash">>
      [] s = "nocmd"     -> <<>>
      [] s = "denied"    -> <<>>
      [] OTHER           -> <<"/usr/bin/python3", "/entrypoint.py">>

\* 'VeinServer' in s, for the strings that occur in the process table
HasVeinServer(s) ==
    s \in {"VeinServer.sh", "VeinServer", "./VeinServer.sh", "./VeinServer",
           "/opt/VeinServer/server-api.py"}

\* the condition of get_server_process on one process: "'VeinServer' in
\* None" raises TypeError, which the except clause does not catch
MatchResult(s) ==
    IF ProcName(s) = None THEN "TypeError"
    ELSE IF \/ HasVeinServer(ProcName(s))
            \/ \E i \in 1..Len(ProcCmdline(s)) : HasVeinServer(ProcCmdline(s)[i])
         THEN "match"
         ELSE "skip"

\* the test of get_server_process on one process
MatchesServer(s) == MatchResult(s) = "match"

\* a pid process_iter yields: it is running and does not vanish mid-read
Listed(s) == s \notin {"unborn", "dead", "vanished"}

\* the loop of get_server_process over a process table given in pid order,
\* entry i being pid i: the first match is returned, None when there is
\* none, and the TypeError of an entry before the first match propagates
RECURSIVE ScanFrom(_, _)
ScanFrom(tbl, i) ==
    IF i > Len(tbl) THEN [tag |-> "notfound", pid |-> NoPid]
    ELSE IF ~Listed(tbl[i]) THEN ScanFrom(tbl, i + 1)
    ELSE IF MatchResult(tbl[i]) = "TypeError" THEN [tag |-> "error", pid |-> NoPid]
    ELSE IF MatchResult(tbl[i]) = "match" THEN [tag |-> "found", pid |-> i]
    ELSE ScanFrom(tbl, i + 1)

Scan(tbl) == ScanFrom(tbl, 1)

\* get_server_process on the process table of the server's processes:
\* psutil.process_iter yields by ascending pid; the first match is
\* returned, None (NoPid) when there is none
ServerTable == [i \in 1..Cardinality(Pids) |-> st[i]]

get_server_process == Scan(ServerTable).pid

\* get_server_status on what get_server_process gave: its TypeError is
\* outside the try block and ends the request with a 500; None gives
\* 'offline'; a process gives 'online' unless reading its create_time
\* raises NoSuchProcess or AccessDenied, which gives 'unknown' with
\* server_running False
get_server_status(found, createTimeOk) ==
    CASE found.tag = "error"    -> "error"
      [] found.tag = "notfound" -> "offline"
      [] OTHER -> IF createTimeOk THEN "online" ELSE "unknown"

\* proc.children(recursive=True) of a live process
Children(p) ==
    IF p \in RootPids /\ Alive(ChildPid(p)) THEN {ChildPid(p)} ELSE {}

\* the signal calls of a loop over a list of children
RECURSIVE SignalAll(_, _)
SignalAll(sig, S) ==
    IF S = {} THEN <<>>
    ELSE LET c == CHOOSE x \in S : \A y \in S : x <= y
         IN  <<(<<sig, c>>)>> \o SignalAll(sig, S \ {c})

\* ---------------------------------------------------------------------
\* Initial state
\* ---------------------------------------------------------------------

\* LaunchKind with the raw binary preferred to the wrapper script
LaunchKind_BinaryFirst(sh, bin) ==
    IF bin THEN "binary" ELSE IF sh THEN "wrapper" ELSE "dead"

\* what start_server / restart_server run for the files on disk
LaunchKind(sh, bin) ==
    IF sh THEN "wrapper" ELSE IF bin THEN "binary" ELSE "dead"

\* the process table after the executable is started under pid p: the
\* wrapper script runs the binary as its child
Started(procs, p, what) ==
    [procs EXCEPT ![p] = what,
                  ![ChildPid(p)] = IF what = "wrapper" THEN "binary" ELSE @]

\* no request has arrived and no status has been asked
NoRequests ==
    /\ kind = [r \in Reqs |-> "none"]
    /\ pc = [r \in Reqs |-> "idle"]
    /\ proc = [r \in Reqs |-> NoPid]
    /\ sent = [r \in Reqs |-> <<>>]
    /\ resp = [r \in Reqs |-> "none"]
    /\ grace = [r \in Reqs |-> "none"]
    /\ force = [r \in Reqs |-> "none"]
    /\ provExit = [r \in Reqs |-> "none"]
    /\ started = {}
    /\ cred = [r \in Reqs |-> "unset"]
    /\ notified = [r \in Reqs |-> "none"]
    /\ statusOut = "none"

\* the server as the container starts it, and no request yet
ServerInit ==
    /\ isfileSh \in BOOLEAN
    /\ isfileBin \in BOOLEAN
    /\ st = Started([p \in Pids |-> "unborn"], InitialPid,
                    IF isfileSh \/ isfileBin
                    THEN LaunchKind(isfileSh, isfileBin) ELSE "unborn")
    /\ NoRequests

\* an environment variable that is not set
Unset == "<unset>"

NotLocated == [tag |-> "unset", pid |-> NoPid]
\* no argument list is built yet: a built one starts with -log
NotBuilt == [restart |-> <<>>, start |-> <<>>]

\* a file that does not exist
Missing == [exists |-> FALSE, parses |-> FALSE, sections |-> <<>>]

\* os.path.exists(SAVE_FILE) is False: the save file has no mtime
NoSave == -1

\* backup.py is not running and has not run
NotRun == [phase |-> "idle", exit |-> "none", cleanup |-> "none"]
NoConfigBody == [hasConfig |-> FALSE, config |-> <<>>]
NoPut == [body |-> NoConfigBody, answer |-> "none"]

\* no save file, no backup, no configuration file: backup.py is not run
\* and no PUT /api/config is sent
NoJobs ==
    /\ backups = <<>>
    /\ saveFile = NoSave
    /\ clock = 1
    /\ retention = 0
    /\ lastRun = NotRun
    /\ ini = Missing
    /\ lastPut = NoPut

\* no process table to scan and no argument list to build
NoInputs ==
    /\ table = <<>>
    /\ located = NotLocated
    /\ env = [GAME_PORT |-> Unset, GAME_SERVER_QUERY_PORT |-> Unset,
              SERVER_MULTIHOME_IP |-> Unset]
    /\ extraArgs = <<>>
    /\ argv = NotBuilt
    /\ NoJobs

\* the control plane with the defaults of its environment: SERVER_API_KEY
\* and DISCORD_ADMIN_WEBHOOK_URL are ''
Init ==
    /\ ServerInit
    /\ apiKey = ""
    /\ webhook = FALSE
    /\ NoInputs

\* ---------------------------------------------------------------------
\* Handlers of POST /api/server/restart and POST /api/server/update
\* ---------------------------------------------------------------------

\* the key a request presents: request.headers.get('X-API-Key') or
\* request.args.get('api_key')
provided_key(header, arg) ==
    IF header \notin {None, ""} THEN header ELSE arg

\* require_api_key: with no API_KEY every request is let through, else a
\* request whose key differs from API_KEY is answered 401
require_api_key(key) ==
    IF apiKey = "" THEN TRUE
    ELSE IF key # apiKey THEN FALSE
    ELSE TRUE

\* what the POST to the webhook can do when a webhook is configured
WebhookOutcomes ==
    IF webhook THEN {"delivered", "rejected", "raised"} ELSE {"unconfigured"}

\* send_discord_notification with the try / except removed
send_discord_notification_NoExcept(outcome) ==
    CASE outcome = "unconfigured" -> "False"
      [] outcome = "delivered"    -> "True"
      [] outcome = "rejected"     -> "False"
      [] OTHER                    -> "raise"

\* send_discord_notification: False without a webhook, the status code
\* being 200 or 204 when the POST returns, False when anything is raised
send_discord_notification(outcome) ==
    CASE outcome = "unconfigured" -> "False"
      [] outcome = "delivered"    -> "True"
      [] outcome = "rejected"     -> "False"
      [] OTHER                    -> "False"

Finish(r, answer) ==
    /\ pc' = [pc EXCEPT ![r] = "done"]
    /\ resp' = [resp EXCEPT ![r] = answer]
    /\ UNCHANGED notified

\* the end of both handlers once Popen has returned: the notification is
\* sent inside the try block, so anything it raises becomes the 500 of
\* "except Exception"
NotifyAndFinish(r) ==
    \E outcome \in WebhookOutcomes :
        /\ notified' = [notified EXCEPT ![r] = outcome]
        /\ pc' = [pc EXCEPT ![r] = "done"]
        /\ resp' = [resp EXCEPT ![r] =
                      IF send_discord_notification(outcome) = "raise"
                      THEN "Failed" ELSE "success"]

\* restart: time.sleep(2), pick the executable, subprocess.Popen, notify
RestartSpawn(r) ==
    IF LaunchKind(isfileSh, isfileBin) = "dead"
    THEN Finish(r, "MissingExecutable") /\ UNCHANGED st
    ELSE \E popenOk \in BOOLEAN :
           IF popenOk
           THEN /\ st' = Started(st, SpawnPid(r), LaunchKind(isfileSh, isfileBin))
                /\ NotifyAndFinish(r)
           ELSE Finish(r, "Failed") /\ UNCHANGED st

\* UpdateSpawn with an exception raised after Popen has returned
UpdateSpawn_FailAfterPopen(r) ==
    \E popenOk \in BOOLEAN :
        IF popenOk
        THEN /\ st' = [st EXCEPT ![SpawnPid(r)] = "entry"]
             /\ Finish(r, "Failed")
        ELSE Finish(r, "Failed") /\ UNCHANGED st

\* update: time.sleep(2), subprocess.Popen of /entrypoint.py, notify
UpdateSpawn(r) ==
    \E popenOk \in BOOLEAN :
        IF popenOk
        THEN /\ st' = [st EXCEPT ![SpawnPid(r)] = "entry"]
             /\ NotifyAndFinish(r)
        ELSE Finish(r, "Failed") /\ UNCHANGED st

\* the launch part of the handler of a request of kind k
Launch(r, k) == IF k = "restart" THEN RestartSpawn(r) ELSE UpdateSpawn(r)

\* the keys a client may put in the X-API-Key header or the api_key
\* argument; None when it sends none
Keys == {None, "secret", "wrong"}

\* the values provided_key takes over the requests a client may send
PresentedKeys == {provided_key(header, arg) : header \in Keys, arg \in Keys}

\* both handlers start with proc = get_server_process(); with no server
\* restart answers 404 and update goes straight to the launch
HandlerEntry(r, k) ==
    /\ proc' = [proc EXCEPT ![r] = get_server_process]
    /\ IF get_server_process # NoPid
       THEN pc' = [pc EXCEPT ![r] = "signal"] /\ UNCHANGED <<resp, notified, st>>
       ELSE IF k = "restart"
            THEN Finish(r, "NotFound") /\ UNCHANGED st
            ELSE Launch(r, k)

\* a POST of kind k that presents key, through decorated_function of
\* require_api_key: the 401 or the handler
Decorated(r, k, key) ==
    /\ pc[r] = "idle"
    /\ \A q \in Reqs : q < r => kind[q] # "none"
    /\ kind' = [kind EXCEPT ![r] = k]
    /\ IF require_api_key(key)
       THEN HandlerEntry(r, k)
       ELSE Finish(r, "Unauthorized") /\ UNCHANGED <<proc, st>>
    /\ UNCHANGED <<statusOut, cfgVars, locVars, argVars, jobVars>>
    /\ UNCHANGED <<isfileSh, isfileBin, sent, grace, force, provExit, started>>

\* a POST arrives and its handler runs up to the first signal or to its end
Locate(r, k) ==
    \E key \in PresentedKeys :
        /\ Decorated(r, k, key)
        /\ UNCHANGED cred

\* restart: proc.cmdline(), terminate the children, proc.terminate()
\* update:  proc.terminate()
\* A process that is gone makes cmdline() / terminate() raise NoSuchProcess.
SignalPhase(r) ==
    /\ pc[r] = "signal"
    /\ IF kind[r] = "restart"
       THEN IF Alive(proc[r])
            THEN /\ sent' = [sent EXCEPT ![r] =
                        SignalAll("term", Children(proc[r]))
                            \o <<(<<"term", proc[r]>>)>>]
                 /\ pc' = [pc EXCEPT ![r] = "wait1"]
                 /\ UNCHANGED <<resp, notified>>
            ELSE Finish(r, "Disappeared") /\ UNCHANGED sent
       ELSE /\ sent' = [sent EXCEPT ![r] = <<(<<"term", proc[r]>>)>>]
            /\ IF Alive(proc[r])
               THEN pc' = [pc EXCEPT ![r] = "wait1"] /\ UNCHANGED <<resp, notified>>
               ELSE Finish(r, "Failed")
    /\ UNCHANGED <<cred, statusOut, cfgVars, locVars, argVars, jobVars>>
    /\ UNCHANGED <<st, isfileSh, isfileBin, kind, proc, grace, force, provExit, started>>

\* proc.wait(timeout=45 | 30) returns: the process has exited; the handler
\* goes on to the launch
GracefulWaitReturn(r) ==
    /\ pc[r] = "wait1"
    /\ ~Alive(proc[r])
    /\ grace' = [grace EXCEPT ![r] = "exited"]
    /\ Launch(r, kind[r])
    /\ UNCHANGED <<cred, statusOut, cfgVars, locVars, argVars, jobVars>>
    /\ UNCHANGED <<isfileSh, isfileBin, kind, proc, sent, force, provExit, started>>

\* GracefulWaitTimeout for proc.wait() with no timeout: it never raises
GracefulWaitTimeout_NoTimeout(r) ==
    /\ pc[r] = "wait1"
    /\ Alive(proc[r])
    /\ FALSE
    /\ UNCHANGED vars

\* proc.wait(timeout=45 | 30) raises TimeoutExpired: the process is alive
GracefulWaitTimeout(r) ==
    /\ pc[r] = "wait1"
    /\ Alive(proc[r])
    /\ pc' = [pc EXCEPT ![r] = "kill"]
    /\ grace' = [grace EXCEPT ![r] = "timeout"]
    /\ UNCHANGED <<cred, statusOut, cfgVars, locVars, argVars, jobVars>>
    /\ UNCHANGED <<st, isfileSh, isfileBin, kind, proc, sent, resp, notified, force,
                   provExit, started>>

\* KillPhase without the proc.kill() of the located process
KillPhase_NoProcKill(r) ==
    /\ pc[r] = "kill"
    /\ sent' = [sent EXCEPT ![r] = @ \o
          (IF kind[r] = "restart" /\ Alive(proc[r])
           THEN SignalAll("kill", Children(proc[r])) ELSE <<>>)]
    /\ IF Alive(proc[r])
       THEN pc' = [pc EXCEPT ![r] = "wait2"] /\ UNCHANGED <<resp, notified>>
       ELSE Finish(r, IF kind[r] = "restart" THEN "Disappeared" ELSE "Failed")
    /\ UNCHANGED <<cred, statusOut, cfgVars, locVars, argVars, jobVars>>
    /\ UNCHANGED <<st, isfileSh, isfileBin, kind, proc, grace, force, provExit, started>>

\* the TimeoutExpired handler: restart kills the children, both kill proc;
\* proc.kill() on a process that is gone raises NoSuchProcess
KillPhase(r) ==
    /\ pc[r] = "kill"
    /\ sent' = [sent EXCEPT ![r] = @ \o
          (IF kind[r] = "restart" /\ Alive(proc[r])
           THEN SignalAll("kill", Children(proc[r])) ELSE <<>>)
          \o <<(<<"kill", proc[r]>>)>>]
    /\ IF Alive(proc[r])
       THEN pc' = [pc EXCEPT ![r] = "wait2"] /\ UNCHANGED <<resp, notified>>
       ELSE Finish(r, IF kind[r] = "restart" THEN "Disappeared" ELSE "Failed")
    /\ UNCHANGED <<cred, statusOut, cfgVars, locVars, argVars, jobVars>>
    /\ UNCHANGED <<st, isfileSh, isfileBin, kind, proc, grace, force, provExit, started>>

\* proc.wait(timeout=10 | 5) returns; the handler goes on to the launch
ForceWaitReturn(r) ==
    /\ pc[r] = "wait2"
    /\ ~Alive(proc[r])
    /\ force' = [force EXCEPT ![r] = "exited"]
    /\ Launch(r, kind[r])
    /\ UNCHANGED <<cred, statusOut, cfgVars, locVars, argVars, jobVars>>
    /\ UNCHANGED <<isfileSh, isfileBin, kind, proc, sent, grace, provExit, started>>

\* ForceWaitTimeout with the second TimeoutExpired swallowed
ForceWaitTimeout_Proceed(r) ==
    /\ pc[r] = "wait2"
    /\ Alive(proc[r])
    /\ force' = [force EXCEPT ![r] = "timeout"]
    /\ Launch(r, kind[r])
    /\ UNCHANGED <<cred, statusOut, cfgVars, locVars, argVars, jobVars>>
    /\ UNCHANGED <<isfileSh, isfileBin, kind, proc, sent, grace, provExit, started>>

\* proc.wait(timeout=10 | 5) raises TimeoutExpired: error response
ForceWaitTimeout(r) ==
    /\ pc[r] = "wait2"
    /\ Alive(proc[r])
    /\ Finish(r, "NotTerminated")
    /\ force' = [force EXCEPT ![r] = "timeout"]
    /\ UNCHANGED <<cred, statusOut, cfgVars, locVars, argVars, jobVars>>
    /\ UNCHANGED <<st, isfileSh, isfileBin, kind, proc, sent, grace, provExit, started>>

\* ---------------------------------------------------------------------
\* entrypoint.py spawned by update
\* ---------------------------------------------------------------------

\* main up to the call of install_or_update_server: exits with status 1
\* when SERVER_PATH or CONFIG_PATH is not set, else steamcmd is started
EntryMain(r) ==
    /\ st[SpawnPid(r)] = "entry"
    /\ \E envSet \in BOOLEAN :
         st' = [st EXCEPT ![SpawnPid(r)] = IF envSet THEN "prov" ELSE "dead"]
    /\ UNCHANGED <<cred, statusOut, cfgVars, locVars, argVars, jobVars>>
    /\ UNCHANGED <<isfileSh, isfileBin, kind, pc, proc, sent, resp, notified, grace, force,
                   provExit, started>>

\* ProvisionExit with subprocess.run(cmd, check=False)
ProvisionExit_NoCheck(r) ==
    /\ st[SpawnPid(r)] = "prov"
    /\ \E code \in {0, 1} :
         /\ provExit' = [provExit EXCEPT ![r] = IF code = 0 THEN "zero" ELSE "nonzero"]
         /\ started' = started \cup {r}
         /\ st' = Started(st, SpawnPid(r), LaunchKind(isfileSh, isfileBin))
    /\ UNCHANGED <<cred, statusOut, cfgVars, locVars, argVars, jobVars>>
    /\ UNCHANGED <<isfileSh, isfileBin, kind, pc, proc, sent, resp, notified, grace, force>>

\* subprocess.run(cmd, check=True) returns: a non-zero exit raises
\* CalledProcessError, which ends the entrypoint; exit 0 goes on to
\* start_server, which execs the server under the same pid or exits
ProvisionExit(r) ==
    /\ st[SpawnPid(r)] = "prov"
    /\ \E code \in {0, 1} :
         IF code = 0
         THEN /\ provExit' = [provExit EXCEPT ![r] = "zero"]
              /\ started' = started \cup {r}
              /\ st' = Started(st, SpawnPid(r), LaunchKind(isfileSh, isfileBin))
         ELSE /\ provExit' = [provExit EXCEPT ![r] = "nonzero"]
              /\ st' = [st EXCEPT ![SpawnPid(r)] = "dead"]
              /\ UNCHANGED started
    /\ UNCHANGED <<cred, statusOut, cfgVars, locVars, argVars, jobVars>>
    /\ UNCHANGED <<isfileSh, isfileBin, kind, pc, proc, sent, resp, notified, grace, force>>

\* ---------------------------------------------------------------------
\* The host
\* ---------------------------------------------------------------------

\* a server process exits, on a signal it was sent or on its own; the
\* wrapper script ends with the binary it runs, while a wrapper that is
\* terminated leaves its binary running
ProcExit(p) ==
    /\ st[p] \in {"wrapper", "binary"}
    /\ st' = [q \in Pids |->
                IF q = p \/ (q \in RootPids /\ ChildPid(q) = p /\ st[q] = "wrapper")
                THEN "dead" ELSE st[q]]
    /\ UNCHANGED <<cred, statusOut, cfgVars, locVars, argVars, jobVars>>
    /\ UNCHANGED <<isfileSh, isfileBin, kind, pc, proc, sent, resp, notified, grace, force,
                   provExit, started>>

Next ==
    \/ \E r \in Reqs : \E k \in {"restart", "update"} : Locate(r, k)
    \/ \E r \in Reqs : SignalPhase(r)
    \/ \E r \in Reqs : GracefulWaitReturn(r)
    \/ \E r \in Reqs : GracefulWaitTimeout(r)
    \/ \E r \in Reqs : KillPhase(r)
    \/ \E r \in Reqs : ForceWaitReturn(r)
    \/ \E r \in Reqs : ForceWaitTimeout(r)
    \/ \E r \in Reqs : EntryMain(r)
    \/ \E r \in Reqs : ProvisionExit(r)
    \/ \E p \in Pids : ProcExit(p)

Spec == Init /\ [][Next]_vars

\* What the threads of the control plane and the entrypoint guarantee: a
\* handler or the entrypoint that can take its next step takes it, and a
\* wait with a timeout ends.  Nothing makes steamcmd or the server exit:
\* subprocess.run(cmd, check=True) has no timeout.
HandlerFairness ==
    \A r \in Reqs :
        /\ WF_vars(SignalPhase(r))
        /\ WF_vars(GracefulWaitReturn(r))
        /\ WF_vars(GracefulWaitTimeout(r))
        /\ WF_vars(KillPhase(r))
        /\ WF_vars(ForceWaitReturn(r))
        /\ WF_vars(ForceWaitTimeout(r))
        /\ WF_vars(EntryMain(r))

FairSpec == Spec /\ HandlerFairness

\* ---------------------------------------------------------------------
\* The two POST handlers with any configuration of the key and of the
\* webhook, and the status handler next to the two POST handlers
\* ---------------------------------------------------------------------

MaxApiReq == 1
ApiReqs == 1..MaxApiReq

ApiInit ==
    /\ ServerInit
    /\ apiKey \in {"", "secret"}
    /\ webhook \in BOOLEAN
    /\ NoInputs

\* Locate, with the key the request presented kept
ApiRequest(r, k) ==
    \E key \in PresentedKeys :
        /\ Decorated(r, k, key)
        /\ cred' = [cred EXCEPT ![r] = key]

ApiNext ==
    \/ \E r \in ApiReqs : \E k \in {"restart", "update"} : ApiRequest(r, k)
    \/ \E r \in ApiReqs : SignalPhase(r)
    \/ \E r \in ApiReqs : GracefulWaitReturn(r)
    \/ \E r \in ApiReqs : GracefulWaitTimeout(r)
    \/ \E r \in ApiReqs : KillPhase(r)
    \/ \E r \in ApiReqs : ForceWaitReturn(r)
    \/ \E r \in ApiReqs : ForceWaitTimeout(r)
    \/ \E r \in ApiReqs : EntryMain(r)
    \/ \E r \in ApiReqs : ProvisionExit(r)
    \/ \E p \in Pids : ProcExit(p)

ApiSpec == ApiInit /\ [][ApiNext]_vars

\* Status that is answered only while no restart or update is in flight
Status_WhenIdle ==
    /\ \A r \in Reqs : pc[r] \in {"idle", "done"}
    /\ \E createTimeOk \in BOOLEAN :
         statusOut' = get_server_status(Scan(ServerTable), createTimeOk)
    /\ UNCHANGED <<st, isfileSh, isfileBin, kind, pc, proc, sent, resp, grace,
                   force, provExit, started, cred, notified, cfgVars,
                   locVars, argVars, jobVars>>

\* GET /api/server/status: the route has no require_api_key and the
\* handler takes no lock
Status ==
    /\ \E createTimeOk \in BOOLEAN :
         statusOut' = get_server_status(Scan(ServerTable), createTimeOk)
    /\ UNCHANGED <<st, isfileSh, isfileBin, kind, pc, proc, sent, resp, grace,
                   force, provExit, started, cred, notified, cfgVars,
                   locVars, argVars, jobVars>>

StatusNext ==
    \/ \E r \in ApiReqs : \E k \in {"restart", "update"} : Locate(r, k)
    \/ \E r \in ApiReqs : SignalPhase(r)
    \/ \E r \in ApiReqs : GracefulWaitReturn(r)
    \/ \E r \in ApiReqs : GracefulWaitTimeout(r)
    \/ \E r \in ApiReqs : KillPhase(r)
    \/ \E r \in ApiReqs : ForceWaitReturn(r)
    \/ \E r \in ApiReqs : ForceWaitTimeout(r)
    \/ \E r \in ApiReqs : EntryMain(r)
    \/ \E r \in ApiReqs : ProvisionExit(r)
    \/ \E p \in Pids : ProcExit(p)
    \/ Status

StatusSpec == Init /\ [][StatusNext]_vars

\* ---------------------------------------------------------------------
\* The locator and the status handler on an arbitrary host process table
\* ---------------------------------------------------------------------

MaxProcs == 3

RECURSIVE SeqsUpTo(_, _)
SeqsUpTo(S, n) ==
    IF n = 0 THEN {<<>>}
    ELSE SeqsUpTo(S, n - 1) \cup [1..n -> S]

LocInit ==
    /\ ServerInit
    /\ apiKey = ""
    /\ webhook = FALSE
    /\ table \in SeqsUpTo(HostKinds, MaxProcs)
    /\ located = NotLocated
    /\ env = [GAME_PORT |-> Unset, GAME_SERVER_QUERY_PORT |-> Unset,
              SERVER_MULTIHOME_IP |-> Unset]
    /\ extraArgs = <<>>
    /\ argv = NotBuilt
    /\ NoJobs

\* get_server_process() on the table
LocatorScan ==
    /\ located = NotLocated
    /\ located' = Scan(table)
    /\ UNCHANGED <<st, isfileSh, isfileBin, kind, pc, proc, sent, resp, grace,
                   force, provExit, started, cred, notified, statusOut,
                   cfgVars, table, argVars, jobVars>>

\* GET /api/server/status on the table
TableStatus ==
    /\ statusOut = "none"
    /\ \E createTimeOk \in BOOLEAN :
         statusOut' = get_server_status(Scan(table), createTimeOk)
    /\ UNCHANGED <<st, isfileSh, isfileBin, kind, pc, proc, sent, resp, grace,
                   force, provExit, started, cred, notified, cfgVars,
                   locVars, argVars, jobVars>>

LocNext == LocatorScan \/ TableStatus

LocSpec == LocInit /\ [][LocNext]_vars

\* ---------------------------------------------------------------------
\* The two builders of the server's argument list
\* ---------------------------------------------------------------------

MaxExtra == 2

\* values of the three environment variables: not set, set to the empty
\* string, set to the default of start_server, set to something else
GamePorts == {Unset, "", "7777", "7000"}
QueryPorts == {Unset, "", "27015", "27000"}
MultihomeIps == {Unset, "", "10.0.0.1"}

\* an argument built by an f-string is the pair of its flag and its value
Flag(name, value) == <<name, value>>

\* arguments an operator may append to the command of the container
ExtraArgChoices ==
    {Flag("-Port=", "9999"), Flag("-QueryPort=", "9999"), <<"-NoSteam">>}

\* os.getenv(name, default) and the truth value of os.getenv(name)
Getenv(value, default) == IF value = Unset THEN default ELSE value
IsSet(value) == value \notin {Unset, ""}

\* restart_server: server_args
RestartArgs(e) ==
    <<(<<"-log">>)>>
    \o (IF IsSet(e.GAME_PORT)
        THEN <<Flag("-Port=", e.GAME_PORT)>> ELSE <<>>)
    \o (IF IsSet(e.GAME_SERVER_QUERY_PORT)
        THEN <<Flag("-QueryPort=", e.GAME_SERVER_QUERY_PORT)>> ELSE <<>>)
    \o (IF IsSet(e.SERVER_MULTIHOME_IP)
        THEN <<Flag("-multihome=", e.SERVER_MULTIHOME_IP)>> ELSE <<>>)

\* start_server: server_args
StartServerArgs(e, extra) ==
    <<(<<"-log">>),
      Flag("-QueryPort=", Getenv(e.GAME_SERVER_QUERY_PORT, "27015")),
      Flag("-Port=", Getenv(e.GAME_PORT, "7777"))>>
    \o (IF IsSet(e.SERVER_MULTIHOME_IP)
        THEN <<Flag("-multihome=", e.SERVER_MULTIHOME_IP)>> ELSE <<>>)
    \o extra

ArgInit ==
    /\ ServerInit
    /\ apiKey = ""
    /\ webhook = FALSE
    /\ table = <<>>
    /\ located = NotLocated
    /\ env \in [GAME_PORT : GamePorts, GAME_SERVER_QUERY_PORT : QueryPorts,
                SERVER_MULTIHOME_IP : MultihomeIps]
    /\ extraArgs \in SeqsUpTo(ExtraArgChoices, MaxExtra)
    /\ argv = NotBuilt
    /\ NoJobs

BuildRestartArgs ==
    /\ argv.restart = <<>>
    /\ argv' = [argv EXCEPT !.restart = RestartArgs(env)]
    /\ UNCHANGED <<st, isfileSh, isfileBin, kind, pc, proc, sent, resp, grace,
                   force, provExit, started, cred, notified, statusOut,
                   cfgVars, locVars, env, extraArgs, jobVars>>

BuildStartServerArgs ==
    /\ argv.start = <<>>
    /\ argv' = [argv EXCEPT !.start = StartServerArgs(env, extraArgs)]
    /\ UNCHANGED <<st, isfileSh, isfileBin, kind, pc, proc, sent, resp, grace,
                   force, provExit, started, cred, notified, statusOut,
                   cfgVars, locVars, env, extraArgs, jobVars>>

ArgNext == BuildRestartArgs \/ BuildStartServerArgs

ArgSpec == ArgInit /\ [][ArgNext]_vars

\* ---------------------------------------------------------------------
\* The launch with any files on disk: the executables may have been
\* removed or installed since the running server was started
\* ---------------------------------------------------------------------

LaunchInit ==
    /\ isfileSh \in BOOLEAN
    /\ isfileBin \in BOOLEAN
    /\ \E running \in {"wrapper", "binary", "unborn"} :
         st = Started([p \in Pids |-> "unborn"], InitialPid, running)
    /\ NoRequests
    /\ apiKey = ""
    /\ webhook = FALSE
    /\ NoInputs

LaunchNext ==
    \/ \E r \in ApiReqs : \E k \in {"restart", "update"} : Locate(r, k)
    \/ \E r \in ApiReqs : SignalPhase(r)
    \/ \E r \in ApiReqs : GracefulWaitReturn(r)
    \/ \E r \in ApiReqs : GracefulWaitTimeout(r)
    \/ \E r \in ApiReqs : KillPhase(r)
    \/ \E r \in ApiReqs : ForceWaitReturn(r)
    \/ \E r \in ApiReqs : ForceWaitTimeout(r)
    \/ \E r \in ApiReqs : EntryMain(r)
    \/ \E r \in ApiReqs : ProvisionExit(r)
    \/ \E p \in Pids : ProcExit(p)

LaunchSpec == LaunchInit /\ [][LaunchNext]_vars

\* the same with the steps of the handlers and of the entrypoint taken
FairLaunchSpec == LaunchSpec /\ HandlerFairness

\* the launch with any files on disk, any API key and any webhook
AnyInit ==
    /\ isfileSh \in BOOLEAN
    /\ isfileBin \in BOOLEAN
    /\ \E running \in {"wrapper", "binary", "unborn"} :
         st = Started([p \in Pids |-> "unborn"], InitialPid, running)
    /\ NoRequests
    /\ apiKey \in {"", "secret"}
    /\ webhook \in BOOLEAN
    /\ NoInputs

AnySpec == AnyInit /\ [][LaunchNext]_vars

\* ---------------------------------------------------------------------
\* backup.py: one run copies Server.vns into BACKUP_DIR under the name of
\* the current second, then removes all but the MAX_BACKUPS newest backups
\* ---------------------------------------------------------------------

MaxClock == 3
MaxRetention == 2

\* name of a backup found at the start, older or newer than every save
\* file of the behaviour, and the names and mtimes a run can write
OldNames == {0}
OldMtimes == {0, MaxClock}
Names == 0..MaxClock
Mtimes == 0..MaxClock

\* the directory with the file of that name written with that mtime
WithFile(dir, name, mtime) ==
    [n \in DOMAIN dir \cup {name} |-> IF n = name THEN mtime ELSE dir[n]]

\* the directory without the files of a sequence of names
Unlinked(dir, removed) ==
    [n \in DOMAIN dir \ {removed[i] : i \in 1..Len(removed)} |-> dir[n]]

\* sorted(glob('Server_*.vns'), key=st_mtime, reverse=True): the orders of
\* the names S by descending mtime; glob gives no order, so files of equal
\* mtime come in any order
RECURSIVE SortedByMtime(_, _)
SortedByMtime(dir, S) ==
    IF S = {} THEN {<<>>}
    ELSE UNION {{<<x>> \o rest : rest \in SortedByMtime(dir, S \ {x})} :
                  x \in {y \in S : \A z \in S : dir[y] >= dir[z]}}

\* the same list sorted with reverse=False
files_to_remove_OldestKept(backup_files, max_backups) ==
    IF Len(backup_files) <= max_backups THEN <<>>
    ELSE SubSeq(backup_files, 1, Len(backup_files) - max_backups)

\* cleanup_old_backups: backup_files[MAX_BACKUPS:], nothing when there are
\* at most MAX_BACKUPS files
files_to_remove(backup_files, max_backups) ==
    IF Len(backup_files) <= max_backups THEN <<>>
    ELSE SubSeq(backup_files, max_backups + 1, Len(backup_files))

BakInit ==
    /\ ServerInit
    /\ apiKey = ""
    /\ webhook = FALSE
    /\ table = <<>>
    /\ located = NotLocated
    /\ env = [GAME_PORT |-> Unset, GAME_SERVER_QUERY_PORT |-> Unset,
              SERVER_MULTIHOME_IP |-> Unset]
    /\ extraArgs = <<>>
    /\ argv = NotBuilt
    /\ backups \in UNION {[S -> OldMtimes] : S \in SUBSET OldNames}
    /\ saveFile \in {NoSave, 0}
    /\ clock = 1
    /\ retention \in 0..MaxRetention
    /\ lastRun = NotRun
    /\ ini = Missing
    /\ lastPut = NoPut

\* a second passes
Tick ==
    /\ clock < MaxClock
    /\ clock' = clock + 1
    /\ UNCHANGED <<st, isfileSh, isfileBin, kind, pc, proc, sent, resp, grace,
                   force, provExit, started, cred, notified, statusOut,
                   cfgVars, locVars, argVars, backups, saveFile, retention,
                   lastRun, iniVars>>

\* the game server writes its save file
SaveWritten ==
    /\ saveFile # clock
    /\ saveFile' = clock
    /\ UNCHANGED <<st, isfileSh, isfileBin, kind, pc, proc, sent, resp, grace,
                   force, provExit, started, cred, notified, statusOut,
                   cfgVars, locVars, argVars, backups, clock, retention,
                   lastRun, iniVars>>

\* BackupCopy whose failure is ignored by main
BackupCopy_IgnoreFailure ==
    /\ lastRun.phase # "copied"
    /\ IF saveFile = NoSave
       THEN /\ lastRun' = [phase |-> "copied", exit |-> "none", cleanup |-> "none"]
            /\ UNCHANGED backups
       ELSE \E copied \in BOOLEAN, partial \in BOOLEAN :
              IF copied
              THEN /\ backups' = WithFile(backups, clock, saveFile)
                   /\ lastRun' = [phase |-> "copied", exit |-> "none",
                                  cleanup |-> "none"]
              ELSE /\ backups' = IF partial THEN WithFile(backups, clock, clock)
                                 ELSE backups
                   /\ lastRun' = [phase |-> "copied", exit |-> "none",
                                  cleanup |-> "none"]
    /\ UNCHANGED <<st, isfileSh, isfileBin, kind, pc, proc, sent, resp, grace,
                   force, provExit, started, cred, notified, statusOut,
                   cfgVars, locVars, argVars, saveFile, clock, retention,
                   iniVars>>

\* main up to the return of backup_save_file: False when the save file is
\* missing; shutil.copy2 keeps the mtime of the save file; when it raises,
\* a partial copy may be left and main returns 1
BackupCopy ==
    /\ lastRun.phase # "copied"
    /\ IF saveFile = NoSave
       THEN /\ lastRun' = [phase |-> "done", exit |-> "1", cleanup |-> "none"]
            /\ UNCHANGED backups
       ELSE \E copied \in BOOLEAN, partial \in BOOLEAN :
              IF copied
              THEN /\ backups' = WithFile(backups, clock, saveFile)
                   /\ lastRun' = [phase |-> "copied", exit |-> "none",
                                  cleanup |-> "none"]
              ELSE /\ backups' = IF partial THEN WithFile(backups, clock, clock)
                                 ELSE backups
                   /\ lastRun' = [phase |-> "done", exit |-> "1",
                                  cleanup |-> "none"]
    /\ UNCHANGED <<st, isfileSh, isfileBin, kind, pc, proc, sent, resp, grace,
                   force, provExit, started, cred, notified, statusOut,
                   cfgVars, locVars, argVars, saveFile, clock, retention,
                   iniVars>>

\* main after a successful copy: cleanup_old_backups, whose exceptions are
\* logged and swallowed (an unlink that raises ends the loop), and return 0
BackupCleanup ==
    /\ lastRun.phase = "copied"
    /\ \E backup_files \in SortedByMtime(backups, DOMAIN backups) :
         LET doomed == files_to_remove(backup_files, retention)
         IN  \E unlinked \in 0..Len(doomed) :
               /\ backups' = Unlinked(backups, SubSeq(doomed, 1, unlinked))
               /\ lastRun' = [phase |-> "done", exit |-> "0",
                              cleanup |-> IF unlinked = Len(doomed)
                                          THEN "ok" ELSE "error"]
    /\ UNCHANGED <<st, isfileSh, isfileBin, kind, pc, proc, sent, resp, grace,
                   force, provExit, started, cred, notified, statusOut,
                   cfgVars, locVars, argVars, saveFile, clock, retention,
                   iniVars>>

BakNext == Tick \/ SaveWritten \/ BackupCopy \/ BackupCleanup

BakSpec == BakInit /\ [][BakNext]_vars

\* ---------------------------------------------------------------------
\* PUT/PATCH /api/config/game and /api/config/engine
\* ---------------------------------------------------------------------

\* section names and option names of the files; configparser keeps the
\* options of [DEFAULT] apart and shows them in every other section
IniSections == {"S", "T"}
DefaultSection == "DEFAULT"
IniKeys == {"a", "b"}

\* a file with those sections, and one that config.read rejects (a
\* duplicate option, a line before the first section header)
File(sections) == [exists |-> TRUE, parses |-> TRUE, sections |-> sections]
Unparseable == [exists |-> TRUE, parses |-> FALSE, sections |-> <<>>]

\* the values of a JSON body, and what str() writes for them
JsonString(text) == [type |-> "string", text |-> text]
JsonNumber(text) == [type |-> "number", text |-> text]
str(value) == value.text

\* the dicts with keys in K and values in V
Dicts(K, V) == UNION {[D -> V] : D \in SUBSET K}

\* the files found at the start
InitFiles ==
    {File(sections) :
       sections \in Dicts(IniSections \cup {DefaultSection},
                          Dicts(IniKeys, {"1"}))}
      \cup {Missing, Unparseable}

\* the items a request gives for a section, and the bodies of a request:
\* without 'config' (or empty), or with a config of sections
ItemChoices ==
    {"a" :> JsonString("2"), "b" :> JsonString("2"),
     [k \in IniKeys |-> IF k = "a" THEN JsonNumber("3") ELSE JsonString("2")]}
Bodies ==
    {NoConfigBody}
      \cup {[hasConfig |-> TRUE, config |-> config] :
              config \in Dicts(IniSections, ItemChoices)
                           \cup {DefaultSection :> ("a" :> JsonString("2"))}}

\* dict.update
Update(d, items) ==
    [k \in DOMAIN d \cup DOMAIN items |->
       IF k \in DOMAIN items THEN items[k] ELSE d[k]]

\* read_ini_file of a file that exists and parses: config.sections()
\* leaves [DEFAULT] out and config.items(section) lays the section's
\* options over those of [DEFAULT]; every value is a string
read_ini_file(file) ==
    LET defaults == IF DefaultSection \in DOMAIN file.sections
                    THEN file.sections[DefaultSection] ELSE <<>>
    IN  [section \in DOMAIN file.sections \ {DefaultSection} |->
           LET items == Update(defaults, file.sections[section])
           IN  [k \in DOMAIN items |-> JsonString(items[k])]]

\* write_ini_file: a section per key of data, each value written by str()
write_ini_file(data) ==
    File([section \in DOMAIN data |->
            [k \in DOMAIN data[section] |-> str(data[section][k])]])

\* the merge that replaces a named section by the items of the request
Merged_ReplaceSection(current_config, config) ==
    [section \in DOMAIN current_config \cup DOMAIN config |->
       IF section \in DOMAIN config THEN config[section]
       ELSE current_config[section]]

\* update_game_config 253-256: current_config[section].update(items), on
\* an empty dict for a section the file does not have
Merged(current_config, config) ==
    [section \in DOMAIN current_config \cup DOMAIN config |->
       Update(IF section \in DOMAIN current_config
              THEN current_config[section] ELSE <<>>,
              IF section \in DOMAIN config THEN config[section] ELSE <<>>)]

IniInit ==
    /\ ServerInit
    /\ apiKey = ""
    /\ webhook = FALSE
    /\ table = <<>>
    /\ located = NotLocated
    /\ env = [GAME_PORT |-> Unset, GAME_SERVER_QUERY_PORT |-> Unset,
              SERVER_MULTIHOME_IP |-> Unset]
    /\ extraArgs = <<>>
    /\ argv = NotBuilt
    /\ backups = <<>>
    /\ saveFile = NoSave
    /\ clock = 1
    /\ retention = 0
    /\ lastRun = NotRun
    /\ ini \in InitFiles
    /\ lastPut = NoPut

\* update_game_config (update_engine_config is the same code on
\* Engine.ini): 404 for a missing file, 400 for a body without 'config',
\* then read, merge and write inside try; an exception (the file does not
\* parse, add_section('DEFAULT') raises ValueError, open or write fails)
\* gives 500, and a write that fails after open leaves the file truncated
update_game_config ==
    /\ \E body \in Bodies :
         IF ~ini.exists
         THEN /\ lastPut' = [body |-> body, answer |-> "404"]
              /\ UNCHANGED ini
         ELSE IF ~body.hasConfig
         THEN /\ lastPut' = [body |-> body, answer |-> "400"]
              /\ UNCHANGED ini
         ELSE IF ~ini.parses \/ DefaultSection \in DOMAIN body.config
         THEN /\ lastPut' = [body |-> body, answer |-> "500"]
              /\ UNCHANGED ini
         ELSE \E io \in {"written", "open raises", "write raises"} :
                /\ ini' = CASE io = "written" ->
                                 write_ini_file(Merged(read_ini_file(ini),
                                                       body.config))
                            [] io = "open raises" -> ini
                            [] io = "write raises" -> File(<<>>)
                /\ lastPut' = [body |-> body,
                               answer |-> IF io = "written" THEN "200"
                                          ELSE "500"]
    /\ UNCHANGED <<st, isfileSh, isfileBin, kind, pc, proc, sent, resp, grace,
                   force, provExit, started, cred, notified, statusOut,
                   cfgVars, locVars, argVars, bakVars>>

IniNext == update_game_config

IniSpec == IniInit /\ [][IniNext]_vars

\* ---------------------------------------------------------------------
\* Properties
\* ---------------------------------------------------------------------

\* a request is executing its handler
InFlight(r) == pc[r] \notin {"idle", "done"}

\* the processes of the server instance a located process belongs to:
\* the process itself and, for a wrapper script, the binary it runs
ProcessSet(p) ==
    IF p = NoPid THEN {}
    ELSE {p} \cup (IF p \in RootPids THEN {ChildPid(p)} ELSE {})

\* the signal calls a request has made
SentSet(r) == {sent[r][i] : i \in 1..Len(sent[r])}
SignalsSent(r, sig) == {c \in SentSet(r) : c[1] = sig}

\* the server instances: a launched entrypoint, a running wrapper or
\* binary, or a binary left behind by its wrapper
Instances == {p \in RootPids : Alive(p) \/ Alive(ChildPid(p))}

\* the shutdown phase of a request succeeded, or there was nothing to stop
ShutdownOk(r) ==
    \/ kind[r] # "none" /\ proc[r] = NoPid
    \/ grace[r] = "exited"
    \/ force[r] = "exited"

\* C1: at most one restart or update is in flight at any time.
C1_AtMostOneInFlight ==
    \A r, q \in Reqs :
        (r # q /\ InFlight(r) /\ proc[r] # NoPid) => ~InFlight(q)

\* C2: a request that arrives while another restart or update is in flight
\* is answered LifecycleBusy at once, with no signal sent and nothing spawned.
C2_SecondRequestBusy ==
    [][\A r \in Reqs :
          (pc[r] = "idle" /\ pc'[r] # "idle" /\ \E q \in Reqs : InFlight(q))
              => /\ pc'[r] = "done"
                 /\ resp'[r] = "LifecycleBusy"
                 /\ sent'[r] = <<>>
                 /\ st'[SpawnPid(r)] = "unborn"]_vars

\* C3: when the entrypoint started by an update that found the server
\* running invokes provisioning, no process of that server's process set
\* is alive.
C3_ProvisionAfterShutdown ==
    [][\A u \in Reqs :
          (/\ kind[u] = "update"
           /\ proc[u] # NoPid
           /\ st[SpawnPid(u)] = "entry"
           /\ st'[SpawnPid(u)] = "prov")
              => \A p \in ProcessSet(proc[u]) : ~Alive(p)]_vars

\* C4: at most one server instance exists at any time, counting running
\* servers and launched entrypoints.
C4_OneInstance == Cardinality(Instances) <= 1

\* C5: a restart that finds no server process, with an executable on disk,
\* returns success, sends no signal and spawns the server.
C5_RestartWhenStoppedStarts ==
    \A r \in Reqs :
        (/\ kind[r] = "restart"
         /\ pc[r] = "done"
         /\ proc[r] = NoPid
         /\ LaunchKind(isfileSh, isfileBin) # "dead")
            => /\ resp[r] \in {"success", "Failed"}
               /\ sent[r] = <<>>
               /\ (resp[r] = "success" => st[SpawnPid(r)] # "unborn")

\* C6: the kill is sent to the located process if and only if the wait
\* after terminate() timed out: a process that exited within the graceful
\* wait is gone and no kill call is ever made, and once the timeout handler
\* has run the kill call on the located process has been made.
C6_KillIffGracefulTimeout ==
    \A r \in Reqs :
        /\ grace[r] = "exited" =>
              SignalsSent(r, "kill") = {} /\ ~Alive(proc[r])
        /\ (grace[r] = "timeout" /\ pc[r] # "kill") =>
              <<"kill", proc[r]>> \in SentSet(r)
        /\ SignalsSent(r, "kill") # {} => grace[r] = "timeout"

C6_Witness ==
    \E r, q \in Reqs :
        /\ grace[r] = "timeout" /\ <<"kill", proc[r]>> \in SentSet(r)
        /\ grace[q] = "exited" /\ pc[q] = "done"

\* C7: when the located process is gone by the time the handler signals
\* it, the handler returns no error and goes on towards the launch.
C7_GoneIsNotAnError ==
    [][\A r \in Reqs :
          (/\ pc[r] \in {"signal", "kill"}
           /\ ~Alive(proc[r])
           /\ pc'[r] # pc[r])
              => resp'[r] = "none" /\ pc'[r] # "done"]_vars

\* C8: when the wait after kill() times out, the handler returns the
\* could-not-terminate error, makes no further signal call (one terminate
\* and one kill on the located process) and spawns nothing.
C8_StillAliveIsFatal ==
    \A r \in Reqs :
        force[r] = "timeout" =>
            /\ pc[r] = "done"
            /\ resp[r] = "NotTerminated"
            /\ st[SpawnPid(r)] = "unborn"
            /\ {c \in SentSet(r) : c[2] = proc[r]}
                   = {<<"term", proc[r]>>, <<"kill", proc[r]>>}
            /\ Len(sent[r]) <= 4

C8_Witness ==
    \E r, q \in Reqs :
        /\ kind[r] = "restart" /\ force[r] = "timeout"
        /\ kind[q] = "update" /\ force[q] = "timeout"

\* C9: an update whose provisioning exited non-zero does not return a
\* success response.
C9_ProvisionFailureReported ==
    \A u \in Reqs :
        (kind[u] = "update" /\ provExit[u] = "nonzero") => resp[u] # "success"

C11_ProvisioningTerminates ==
    \A r \in Reqs :
        (st[SpawnPid(r)] = "prov") ~> (st[SpawnPid(r)] # "prov")
\* C12: whatever the host process table, the process the locator returns
\* is neither the control plane itself nor another process of the control
\* plane.
C12_LocatorExcludesControlPlane ==
    located.tag = "found" => table[located.pid] \notin ControlPlaneKinds

\* C13: whatever the host process table, entries that vanish and entries
\* whose name or command line cannot be read are skipped: the locator ends
\* with a process or with none, and status does not fail.
C13_LocatorNeverRaises ==
    /\ located.tag # "error"
    /\ statusOut # "error"

\* C16: status says the server runs exactly when a server-binary process
\* is in the process table it scanned.
C16_RunningIffBinary ==
    statusOut # "none" =>
        (statusOut = "online" <=>
            \E i \in 1..Len(table) : table[i] = "binary")
\* C14: a restart or update request that does not present a valid
\* credential is rejected, sends no signal and spawns no process.
C14_NoCredentialNoEffect ==
    \A r \in Reqs :
        (cred[r] # "unset" /\ (apiKey = "" \/ cred[r] # apiKey)) =>
            /\ resp[r] = "Unauthorized"
            /\ sent[r] = <<>>
            /\ st[SpawnPid(r)] = "unborn"

\* C15: in every state, whatever restart or update is in flight, a status
\* request can be answered, and answering it leaves the process table, the
\* signals sent and every handler where they were.
C15_StatusReadOnlyNeverBlocked ==
    /\ ENABLED Status
    /\ ~ENABLED (Status /\ <<st, sent, pc, proc, resp, kind, started>>'
                             # <<st, sent, pc, proc, resp, kind, started>>)

\* a status request found no server while request 1, which had found one,
\* was still in its shutdown phase
C15_Witness ==
    /\ statusOut = "offline"
    /\ proc[1] # NoPid
    /\ pc[1] \in {"signal", "wait1", "kill", "wait2"}
    /\ \A q \in Reqs : q # 1 => kind[q] = "none"

\* C20: whatever becomes of the notification (delivered, refused, an
\* exception, no webhook), the request that sent it has spawned its
\* process and answers success.
C20_NotificationNeverFails ==
    \A r \in Reqs :
        notified[r] # "none" =>
            /\ resp[r] = "success"
            /\ st[SpawnPid(r)] # "unborn"

C20_Witness ==
    \E r \in Reqs : notified[r] = "raised" /\ resp[r] = "success"
\* number of arguments of an argument list that carry the given flag
FlagCount(args, name) ==
    Cardinality({i \in 1..Len(args) : args[i][1] = name})

\* the argument list has the flag once, with the given value
HasOnce(args, name, value) ==
    /\ FlagCount(args, name) = 1
    /\ \E i \in 1..Len(args) : args[i] = Flag(name, value)

\* C17: for every setting of GAME_PORT, GAME_SERVER_QUERY_PORT and
\* SERVER_MULTIHOME_IP, restart builds the argument list that start_server
\* builds when it is given no extra arguments.
C17_SameLaunchArgs ==
    (argv.restart # <<>> /\ argv.start # <<>> /\ extraArgs = <<>>) =>
        argv.restart = argv.start

\* C18: every argument list built for a launch carries the configured
\* listen port and query port, each under exactly one flag, whatever extra
\* arguments the operator gave.
C18_OnePortFlagEach ==
    \A args \in {argv.restart, argv.start} \ {<<>>} :
        /\ HasOnce(args, "-Port=", Getenv(env.GAME_PORT, "7777"))
        /\ HasOnce(args, "-QueryPort=",
                   Getenv(env.GAME_SERVER_QUERY_PORT, "27015"))

\* C19: a launch runs VeinServer.sh when that file exists, else VeinServer
\* when that file exists; with neither, restart answers that the
\* executable is missing and the entrypoint exits, and nothing is started.
C19_ExecutablePreference ==
    [][\A r \in Reqs :
        /\ (kind'[r] = "restart" /\ st[SpawnPid(r)] = "unborn"
                /\ st'[SpawnPid(r)] # "unborn") =>
              /\ isfileSh \/ isfileBin
              /\ st'[SpawnPid(r)] = IF isfileSh THEN "wrapper" ELSE "binary"
        /\ (resp[r] = "none" /\ resp'[r] = "MissingExecutable") =>
              ~isfileSh /\ ~isfileBin /\ st' = st
        /\ (kind'[r] = "restart" /\ resp[r] = "none" /\ resp'[r] = "success") =>
              isfileSh \/ isfileBin
        /\ (r \in started' /\ r \notin started) =>
              st'[SpawnPid(r)] = IF isfileSh THEN "wrapper"
                                 ELSE IF isfileBin THEN "binary" ELSE "dead"
      ]_vars

\* both files exist and a restart has started the wrapper script
C19_Witness ==
    /\ isfileSh
    /\ isfileBin
    /\ \E r \in Reqs :
         /\ kind[r] = "restart"
         /\ resp[r] = "success"
         /\ st[SpawnPid(r)] = "wrapper"
\* position of a signal call in the calls a request has made, 0 when the
\* call was not made
CallIndex(calls, c) ==
    IF \E i \in 1..Len(calls) : calls[i] = c
    THEN CHOOSE i \in 1..Len(calls) : calls[i] = c
    ELSE 0

\* the calls hold signal sig for every process of S that is alive, and for
\* the descendants before the located process p
SignalledInOrder(calls, sig, p, S) ==
    /\ \A q \in S : CallIndex(calls, <<sig, q>>) # 0
    /\ \A q \in S \ {p} :
           CallIndex(calls, <<sig, q>>) < CallIndex(calls, <<sig, p>>)

\* C21: in the shutdown of a restart or an update, every live process of
\* the located server's process set is sent the graceful signal, the
\* descendants before the located process.
C21_GracefulToAllDescendantsFirst ==
    [][\A r \in Reqs :
          (pc[r] = "signal" /\ pc'[r] # "signal") =>
              SignalledInOrder(sent'[r], "term", proc[r],
                               {q \in ProcessSet(proc[r]) : Alive(q)})]_vars

\* C22: when the graceful wait has timed out, every process of the set
\* that is still alive is sent the kill, the descendants before the
\* located process.
C22_KillToAllLiveDescendantsFirst ==
    [][\A r \in Reqs :
          (pc[r] = "kill" /\ pc'[r] # "kill") =>
              SignalledInOrder(sent'[r], "kill", proc[r],
                               {q \in ProcessSet(proc[r]) : Alive(q)})]_vars

\* C23: when a restart spawns the new server, no server binary of the
\* process set it located is still running.
C23_SpawnAfterBinaryExit ==
    [][\A r \in Reqs :
          (/\ kind'[r] = "restart"
           /\ st[SpawnPid(r)] = "unborn"
           /\ st'[SpawnPid(r)] # "unborn")
              => \A q \in ProcessSet(proc'[r]) : st[q] # "binary"]_vars
\* C24: every restart or update request that has arrived is eventually
\* answered, whether or not the server process ever exits.
C24_EveryRequestReturns ==
    \A r \in Reqs : (kind[r] # "none") ~> (pc[r] = "done")

\* a request was answered while the process it located was still alive
\* after the terminate and the kill
C24_Witness ==
    \E r \in Reqs :
        /\ pc[r] = "done"
        /\ force[r] = "timeout"
        /\ Alive(proc[r])
\* the processes a step starts with a Popen of a handler
Spawned == {p \in RootPids : st[p] = "unborn" /\ st'[p] # "unborn"}

\* C25: a request spawns at most one process, it spawns one exactly in the
\* step in which it answers success, and every other answer comes with no
\* process spawned.
C25_SpawnIffSuccess ==
    [][/\ Cardinality(Spawned) <= 1
       /\ \A p \in Spawned :
            \E r \in Reqs :
                p = SpawnPid(r) /\ resp[r] = "none" /\ resp'[r] = "success"
       /\ \A r \in Reqs :
            (resp[r] = "none" /\ resp'[r] # "none") =>
                (resp'[r] = "success" <=> SpawnPid(r) \in Spawned)
       /\ \A r \in Reqs :
            resp[r] # "none" => SpawnPid(r) \notin Spawned]_vars

\* a restart stopped the server, found no executable and spawned nothing
C25_Witness ==
    \E r \in Reqs :
        /\ resp[r] = "MissingExecutable"
        /\ ~Alive(proc[r])
        /\ st[SpawnPid(r)] = "unborn"
\* C26: a run of the backup job whose save file is missing or whose copy
\* fails removes no backup and exits with status 1; backups are removed
\* only in a run whose copy succeeded.
C26_NoDeleteWithoutBackup ==
    [][/\ (/\ lastRun.phase # "copied"
           /\ lastRun' # lastRun
           /\ \/ saveFile = NoSave
              \/ clock \notin DOMAIN backups'
              \/ backups'[clock] # saveFile) =>
             /\ lastRun'.phase = "done"
             /\ lastRun'.exit = "1"
             /\ DOMAIN backups \subseteq DOMAIN backups'
       /\ ~(DOMAIN backups \subseteq DOMAIN backups') =>
             /\ lastRun.phase = "copied"
             /\ lastRun'.exit = "0"
       /\ (lastRun.phase # "copied" /\ lastRun'.phase = "copied") =>
             /\ saveFile # NoSave
             /\ clock \in DOMAIN backups'
             /\ backups'[clock] = saveFile]_vars

\* a run failed for a missing save file with backups present
C26_Witness ==
    /\ saveFile = NoSave
    /\ lastRun.exit = "1"
    /\ DOMAIN backups # {}

\* C27: when cleanup_old_backups ends without error, at most MAX_BACKUPS
\* backups remain, no removed backup is newer than a kept one, and nothing
\* is removed when there were at most MAX_BACKUPS.
C27_RetentionBound ==
    [][(lastRun.phase = "copied" /\ lastRun'.cleanup = "ok") =>
          /\ Cardinality(DOMAIN backups') <= retention
          /\ \A k \in DOMAIN backups' : backups'[k] = backups[k]
          /\ \A k \in DOMAIN backups', r \in DOMAIN backups \ DOMAIN backups' :
                 backups[r] <= backups[k]
          /\ Cardinality(DOMAIN backups) <= retention => backups' = backups
      ]_vars

\* a run ended with its cleanup done and exactly MAX_BACKUPS >= 1 backups
\* left, the copy of this run among them
C27_Witness ==
    /\ lastRun.cleanup = "ok"
    /\ retention >= 1
    /\ Cardinality(DOMAIN backups) = retention
    /\ clock \in DOMAIN backups
    /\ \E n \in OldNames : n \in DOMAIN backups

\* the request of a step names that option of that section
Named(body, section, k) ==
    /\ body.hasConfig
    /\ section \in DOMAIN body.config
    /\ k \in DOMAIN body.config[section]

====
